---- MODULE Spec2Model ----
(***************************************************************************)
(* The coffee catalog service (src/src/coffees/coffees.service.ts) over a  *)
(* relational store reached through TypeORM repositories.                  *)
(*                                                                         *)
(* The store is the record db: the Coffee rows (each with the set of       *)
(* Flavour ids of its join rows), the Flavour rows, the Event rows and the *)
(* three id sequences.  findAll, findOne, create, update and remove are    *)
(* one action each; recommendCoffee is modelled await by await, with its   *)
(* writes buffered in the query runner's transaction until the commit.     *)
(* The chains service (src/src/chains/chains.service.ts) is a pure         *)
(* function of its argument.                                               *)
(*                                                                         *)
(* Optional values (undefined / null against a value) are sequences of     *)
(* length 0 or 1.                                                          *)
(***************************************************************************)
EXTENDS Integers, Sequences, FiniteSets, TLC

VARIABLES
    db,           \* the store: tables and id sequences
    lookupAsync,  \* TRUE: coffeeRepository.findOne answers with a Promise
                  \* (TypeORM); FALSE: with the value itself (a test double)
    held,         \* Coffee records the caller holds, by slot
    call,         \* the recommendCoffee calls, by call id
    task,         \* the catalog operations under way, store call by store
                  \* call, by task id
    last,         \* the last service operation: its input and its outcome
    old           \* the store as it was when that operation started

vars == <<db, lookupAsync, held, call, task, last, old>>

----------------------------------------------------------------------------
(* Bounds and input sets *)

MaxCoffees == 2        \* highest id the coffee sequence hands out
MaxRecommends == 2     \* highest value a record's counter is raised to

Titles == {"Coffee", "Good Coffee"}
Brands == {"Coffee Inc."}
FlavourLists ==
    { <<>>, <<"Vanilla">>, <<"Mocha">>, <<"Vanilla", "Mocha">>,
      <<"Mocha", "Mocha">> }
UpdateFlavourLists == { <<>>, <<"Vanilla">>, <<"Mocha">> }
IdStrings == {"1", "01", "2"}
Slots == {"s1"}
Calls == {"r1"}
\* the slots and calls of two callers that recommend at the same time
AllSlots == {"s1", "s2"}
AllCalls == {"r1", "r2"}
\* the catalog operations that may be under way at the same time
Tasks == {"t1", "t2"}

None == <<>>
Some(x) == <<x>>
IsSome(o) == Len(o) = 1

RECURSIVE SetToSeq(_)
SetToSeq(S) ==
    IF S = {} THEN <<>>
    ELSE LET m == CHOOSE x \in S : \A y \in S : x.id <= y.id
         IN  <<m>> \o SetToSeq(S \ {m})

----------------------------------------------------------------------------
(* Errors *)

NoError == [name |-> "", message |-> "", status |-> 0]

\* new HttpException(`Coffee ${id} not found`, HttpStatus.NOT_FOUND)
NotFound(id) ==
    [name |-> "HttpException",
     message |-> "Coffee " \o id \o " not found",
     status |-> 404]

\* TypeORM: a where-key that is no property of the repository's entity
EntityPropertyNotFound(property, target) ==
    [name |-> "EntityPropertyNotFoundError",
     message |-> "Property " \o property \o " was not found in " \o target,
     status |-> 500]

\* TypeORM: remove(null)
MustBeEntity ==
    [name |-> "MustBeEntityError",
     message |-> "Cannot remove, given value must be an entity",
     status |-> 500]

\* a failure of the store itself (connection, query) in the runner call `at`
StoreFailure(at) ==
    [name |-> "QueryFailedError", message |-> "store failure: " \o at,
     status |-> 500]

Ok(v) == [ok |-> TRUE, error |-> NoError, value |-> v]
Fail(e) == [ok |-> FALSE, error |-> e, value |-> None]

----------------------------------------------------------------------------
(* Entities *)

\* `+id`: the number a string id converts to
UnaryPlus(id) ==
    CASE id = "1" -> 1
      [] id = "01" -> 1
      [] id = "2" -> 2

\* column defaults of the Coffee entity
CoffeeDefaults == [description |-> "", recommendations |-> 0]

\* (mutant) the repository of the Flavour entity is injected
FlavourEntityRepository == "Flavour"

\* Which entity's repository the service holds as flavourRepository.
FlavourRepositoryTarget == "Coffee"

HasRow(rows, n) == \E r \in rows : r.id = n
RowOf(rows, n) == CHOOSE r \in rows : r.id = n

\* a Coffee row as the entity a find returns, its flavours relation loaded
LoadCoffee(row, d) ==
    [id |-> row.id, title |-> row.title, brand |-> row.brand,
     description |-> row.description,
     recommendations |-> row.recommendations,
     flavours |-> Some(SetToSeq({f \in d.flavours : f.id \in row.flavours}))]

----------------------------------------------------------------------------
(* The repositories (TypeORM) as the service calls them *)

\* (mutant) the lookup names no relations: the flavours are not loaded
CoffeeFindOneByIdWithoutRelations(n, d) ==
    IF HasRow(d.coffees, n)
    THEN Some([LoadCoffee(RowOf(d.coffees, n), d) EXCEPT !.flavours = None])
    ELSE None

\* coffeeRepository.findOne({where: {id}, relations: {flavours: true}}):
\* what the lookup finds, null (None) when no row matches
CoffeeFindOneById(n, d) ==
    IF HasRow(d.coffees, n) THEN Some(LoadCoffee(RowOf(d.coffees, n), d))
    ELSE None

\* the orders in which the store may hand out the rows of a query that names
\* no order: the sequences that hold every row exactly once
Orders(rows) ==
    {o \in [1..Cardinality(rows) -> rows] :
        \A i, j \in 1..Cardinality(rows) : o[i] = o[j] => i = j}

\* coffeeRepository.find({relations, skip, take}): of the rows in the order the
\* store hands them out, those after the first `skip`, at most `take` of them
RepoFind(options, order, d) ==
    LET skip == IF IsSome(options.skip) THEN options.skip[1] ELSE 0
        after == SubSeq(order, skip + 1, Len(order))
        page == IF IsSome(options.take) /\ options.take[1] < Len(after)
                THEN SubSeq(after, 1, options.take[1])
                ELSE after
    IN  [i \in DOMAIN page |->
            IF options.relations.flavours THEN LoadCoffee(page[i], d)
            ELSE [LoadCoffee(page[i], d) EXCEPT !.flavours = None]]

\* <repository of target>.findOne({where: {name}})
FindOneByName(target, name, d) ==
    IF target = "Flavour"
    THEN Ok(IF \E f \in d.flavours : f.name = name
            THEN Some(CHOOSE f \in d.flavours : f.name = name
                        /\ \A g \in d.flavours : g.name = name => f.id <= g.id)
            ELSE None)
    ELSE Fail(EntityPropertyNotFound("name", target))

\* <repository of target>.create({name}): an unsaved entity (id 0); only the
\* properties the target entity has are copied
RepoCreateByName(target, name) ==
    IF target = "Flavour" THEN [id |-> 0, name |-> name]
    ELSE [id |-> 0, name |-> ""]

\* preloadFlavourByName(name)
preloadFlavourByName(name, d) ==
    LET flavour == FindOneByName(FlavourRepositoryTarget, name, d)
    IN  IF ~flavour.ok THEN Fail(flavour.error)
        ELSE IF IsSome(flavour.value) THEN Ok(flavour.value[1])
        ELSE Ok(RepoCreateByName(FlavourRepositoryTarget, name))

\* Promise.all(names.map((name) => this.preloadFlavourByName(name)))
RECURSIVE PreloadAll(_, _)
PreloadAll(names, d) ==
    IF names = <<>> THEN Ok(<<>>)
    ELSE LET first == preloadFlavourByName(Head(names), d)
             rest == PreloadAll(Tail(names), d)
         IN  IF ~first.ok THEN Fail(first.error)
             ELSE IF ~rest.ok THEN Fail(rest.error)
             ELSE Ok(<<first.value>> \o rest.value)

\* the cascade of a Coffee save over its flavours: every entity without an id
\* is inserted as a new Flavour row
RECURSIVE CascadeFlavours(_, _)
CascadeFlavours(list, d) ==
    IF list = <<>> THEN [db |-> d, list |-> <<>>]
    ELSE LET f == Head(list)
             saved == IF f.id = 0 THEN [id |-> d.flavourSeq, name |-> f.name]
                      ELSE f
             d1 == IF f.id = 0
                   THEN [d EXCEPT !.flavours = @ \cup {saved},
                                  !.flavourSeq = @ + 1]
                   ELSE d
             rest == CascadeFlavours(Tail(list), d1)
         IN  [db |-> rest.db, list |-> <<saved>> \o rest.list]

FlavourIds(list) == {list[i].id : i \in DOMAIN list}

\* coffeeRepository.save(coffeeRepository.create({...dto, flavours})): a new
\* Coffee row with a generated id and the column defaults
RepoInsert(dto, flavours, d) ==
    LET fs == CascadeFlavours(flavours, d)
        id == fs.db.coffeeSeq
        row == [id |-> id, title |-> dto.title[1], brand |-> dto.brand[1],
                description |-> CoffeeDefaults.description,
                recommendations |-> CoffeeDefaults.recommendations,
                flavours |-> FlavourIds(fs.list)]
    IN  [db |-> [fs.db EXCEPT !.coffees = @ \cup {row}, !.coffeeSeq = @ + 1],
         entity |-> [id |-> id, title |-> row.title, brand |-> row.brand,
                     description |-> row.description,
                     recommendations |-> row.recommendations,
                     flavours |-> Some(fs.list)]]

\* save(coffee) of an entity that has an id: the row is written with the
\* entity's columns (inserted under that id when no such row exists); the
\* join rows are replaced when the entity's flavours are defined
RepoSave(coffee, d) ==
    LET fs == IF IsSome(coffee.flavours)
              THEN CascadeFlavours(coffee.flavours[1], d)
              ELSE [db |-> d, list |-> <<>>]
        exists == HasRow(d.coffees, coffee.id)
        fids == IF IsSome(coffee.flavours) THEN FlavourIds(fs.list)
                ELSE IF exists THEN RowOf(d.coffees, coffee.id).flavours
                ELSE {}
        row == [id |-> coffee.id, title |-> coffee.title,
                brand |-> coffee.brand, description |-> coffee.description,
                recommendations |-> coffee.recommendations,
                flavours |-> fids]
    IN  [db |-> [fs.db EXCEPT
                    !.coffees = {r \in @ : r.id # coffee.id} \cup {row}],
         entity |-> [coffee EXCEPT
                        !.flavours = IF IsSome(coffee.flavours)
                                     THEN Some(fs.list) ELSE None]]

\* the entities of list that have an id first, then those that have none
ExistingFirst(list) ==
    SelectSeq(list, LAMBDA f : f.id # 0) \o SelectSeq(list, LAMBDA f : f.id = 0)

\* (mutant) an entity is built from the input even when no row has the id
RepoPreloadOrNew(n, dto, flavours, d) ==
    LET row == IF HasRow(d.coffees, n) THEN RowOf(d.coffees, n)
               ELSE [id |-> n, title |-> "", brand |-> "",
                     description |-> CoffeeDefaults.description,
                     recommendations |-> CoffeeDefaults.recommendations,
                     flavours |-> {}]
    IN  Some([id |-> n,
              title |-> IF IsSome(dto.title) THEN dto.title[1] ELSE row.title,
              brand |-> IF IsSome(dto.brand) THEN dto.brand[1] ELSE row.brand,
              description |-> row.description,
              recommendations |-> row.recommendations,
              flavours |-> IF IsSome(flavours)
                           THEN Some(ExistingFirst(flavours[1])) ELSE None])

\* coffeeRepository.preload({id, ...dto, flavours}): the row loaded by id with
\* the given properties merged over it, undefined (None) when no row has the id
RepoPreload(n, dto, flavours, d) ==
    IF ~HasRow(d.coffees, n) THEN None
    ELSE LET row == RowOf(d.coffees, n)
         IN  Some([id |-> n,
                   title |-> IF IsSome(dto.title) THEN dto.title[1]
                             ELSE row.title,
                   brand |-> IF IsSome(dto.brand) THEN dto.brand[1]
                             ELSE row.brand,
                   description |-> row.description,
                   recommendations |-> row.recommendations,
                   flavours |-> IF IsSome(flavours)
                                THEN Some(ExistingFirst(flavours[1]))
                                ELSE None])

\* (mutant) the removal cascades to the Flavour rows of the coffee
RepoRemoveWithFlavours(coffee, d) ==
    IF ~IsSome(coffee) THEN [ok |-> FALSE, error |-> MustBeEntity,
                             value |-> None, db |-> d]
    ELSE [ok |-> TRUE, error |-> NoError,
          value |-> Some([coffee[1] EXCEPT !.id = 0]),
          db |-> [d EXCEPT
                    !.coffees = {r \in @ : r.id # coffee[1].id},
                    !.flavours = {f \in @ :
                        \A r \in d.coffees :
                            r.id = coffee[1].id => f.id \notin r.flavours}]]

\* coffeeRepository.remove(coffee): the row and its join rows are deleted and
\* the entity comes back without its id
RepoRemove(coffee, d) ==
    IF ~IsSome(coffee) THEN [ok |-> FALSE, error |-> MustBeEntity,
                             value |-> None, db |-> d]
    ELSE [ok |-> TRUE, error |-> NoError,
          value |-> Some([coffee[1] EXCEPT !.id = 0]),
          db |-> [d EXCEPT !.coffees = {r \in @ : r.id # coffee[1].id}]]

----------------------------------------------------------------------------
(* The service operations as functions of the store *)

\* (mutant) the limit is passed as skip and the offset as take
findAllSwapped(paginationQuery, order, d) ==
    Ok(Some(RepoFind([relations |-> [flavours |-> TRUE],
                      skip |-> paginationQuery.limit,
                      take |-> paginationQuery.offset], order, d)))

\* findAll(paginationQuery): the repository's answer, handed on as it is
findAll(paginationQuery, order, d) ==
    Ok(Some(RepoFind([relations |-> [flavours |-> TRUE],
                      skip |-> paginationQuery.offset,
                      take |-> paginationQuery.limit], order, d)))

\* findOne(id): `coffee` is what the repository call evaluates to, a Promise
\* (always truthy) or the value; the caller awaits what is returned
findOne(id, async, d) ==
    LET found == CoffeeFindOneById(UnaryPlus(id), d)
        truthy == async \/ IsSome(found)
    IN  IF ~truthy THEN Fail(NotFound(id)) ELSE Ok(found)

\* create(createCoffeeDto)
create(dto, d) ==
    LET flavours == PreloadAll(dto.flavours[1], d)
    IN  IF ~flavours.ok
        THEN [ok |-> FALSE, error |-> flavours.error, value |-> None, db |-> d]
        ELSE LET saved == RepoInsert(dto, flavours.value, d)
             IN  [ok |-> TRUE, error |-> NoError,
                  value |-> Some(saved.entity), db |-> saved.db]

\* update(id, updateCoffeeDto)
update(id, dto, d) ==
    LET flavours == IF IsSome(dto.flavours)
                    THEN PreloadAll(dto.flavours[1], d)
                    ELSE Ok(<<>>)
    IN  IF ~flavours.ok
        THEN [ok |-> FALSE, error |-> flavours.error, value |-> None, db |-> d]
        ELSE LET coffee == RepoPreload(UnaryPlus(id), dto,
                              IF IsSome(dto.flavours) THEN Some(flavours.value)
                              ELSE None, d)
             IN  IF ~IsSome(coffee)
                 THEN [ok |-> FALSE, error |-> NotFound(id), value |-> None,
                       db |-> d]
                 ELSE LET saved == RepoSave(coffee[1], d)
                      IN  [ok |-> TRUE, error |-> NoError,
                           value |-> Some(saved.entity), db |-> saved.db]

\* remove(id)
remove(id, async, d) ==
    LET coffee == findOne(id, async, d)
    IN  IF ~coffee.ok
        THEN [ok |-> FALSE, error |-> coffee.error, value |-> None, db |-> d,
              removeCalled |-> FALSE]
        ELSE LET r == RepoRemove(coffee.value, d)
             IN  [ok |-> r.ok, error |-> r.error, value |-> r.value,
                  db |-> r.db, removeCalled |-> TRUE]

----------------------------------------------------------------------------
(* recommendCoffee: the pieces of its unit of work *)

\* (mutant) the record is saved without the increment
NotRecommended(coffee) == coffee

\* coffee.recommendations++
Recommended(coffee) == [coffee EXCEPT !.recommendations = @ + 1]

\* the Event built for a recommendation; the store numbers it when it is saved
RecommendEvent(coffee, id) ==
    [id |-> id, name |-> "recommend_coffee", type |-> "coffee",
     payload |-> [coffeeId |-> coffee.id]]

CoffeeWrite(coffee) == [kind |-> "coffee", coffee |-> Some(coffee), event |-> None]
EventWrite(event) == [kind |-> "event", coffee |-> None, event |-> Some(event)]

\* the writes of a transaction applied to the store, in order
RECURSIVE Apply(_, _)
Apply(tx, d) ==
    IF tx = <<>> THEN d
    ELSE LET w == Head(tx)
             d1 == IF w.kind = "coffee" THEN RepoSave(w.coffee[1], d).db
                   ELSE [d EXCEPT !.events = @ \cup {w.event[1]}]
         IN  Apply(Tail(tx), d1)

\* (mutant) the save goes through a repository, outside the transaction
RepositorySave(w, tx, d) == [tx |-> tx, db |-> Apply(<<w>>, d)]

\* queryRunner.manager.save(x): the write joins the runner's open transaction
\* and reaches the tables at the commit
ManagerSave(w, tx, d) == [tx |-> Append(tx, w), db |-> d]

\* (mutant) the catch block raises the error again after the rollback
Rethrown(err) == err

\* catch (err) { ... }: what is left of err to raise once the block is through
Caught(err) == NoError

\* queryRunner.commitTransaction()
CommitTransaction(tx, d) == Apply(tx, d)

\* queryRunner.rollbackTransaction(): the transaction's writes are dropped
RollbackTransaction(tx, d) == d

----------------------------------------------------------------------------
(* The chains service (src/src/chains/chains.service.ts) *)

\* JavaScript values: a number or a string
Num(n) == [type |-> "number", num |-> n, str |-> ""]
Str(t) == [type |-> "string", num |-> 0, str |-> t]

\* the decimal digits of a non-negative integer, as String(n) writes them
RECURSIVE Digits(_)
Digits(n) ==
    LET digit == <<"0", "1", "2", "3", "4", "5", "6", "7", "8", "9">>
    IN  IF n < 10 THEN digit[n + 1]
        ELSE Digits(n \div 10) \o digit[(n % 10) + 1]

\* enum ChainIds, in the order of its declaration.  The test names the member
\* Ethereum and has 2 as no member; 1, 10 and 137 are the chain ids the
\* repository's notes list.
ChainIds ==
    << [name |-> "Ethereum", value |-> 1],
       [name |-> "Optimism", value |-> 10],
       [name |-> "Polygon", value |-> 137] >>

\* Object.entries(ChainIds) of the compiled numeric enum: the reverse mappings
\* (value as key, name as value) come first, their integer keys ascending,
\* then the members (name as key, value as value); each entry is <<key, value>>
ObjectEntries(enum) ==
    [i \in DOMAIN enum |-> <<Str(Digits(enum[i].value)), Str(enum[i].name)>>]
        \o [i \in DOMAIN enum |-> <<Str(enum[i].name), Num(enum[i].value)>>]

\* a === b: the same type and the same value
StrictEquals(a, b) == a.type = b.type /\ a.num = b.num /\ a.str = b.str

\* reading [0] of the undefined that find returns when no entry matches
TypeErrorOfUndefined ==
    [name |-> "TypeError",
     message |-> "Cannot read property '0' of undefined",
     status |-> 500]

\* entries.find((x) => x[1] === chainId): the first entry whose value is
\* chainId, None (undefined) when there is none
FindByValue(entries, chainId) ==
    LET hits == {i \in DOMAIN entries : StrictEquals(entries[i][2], chainId)}
    IN  IF hits = {} THEN None
        ELSE Some(entries[CHOOSE i \in hits : \A j \in hits : i <= j])

\* (mutant) `find(...)?.[0]`: undefined is handed on where no entry matches
getChainNameOrUndefined(chainId) ==
    LET entry == FindByValue(ObjectEntries(ChainIds), chainId)
    IN  IF IsSome(entry) THEN Ok(Some(entry[1][1].str)) ELSE Ok(None)

\* getChainName(chainId)
getChainName(chainId) ==
    LET entry == FindByValue(ObjectEntries(ChainIds), chainId)
    IN  IF IsSome(entry) THEN Ok(Some(entry[1][1].str))
        ELSE Fail(TypeErrorOfUndefined)

----------------------------------------------------------------------------
(* The chain lookup request: the global ValidationPipe (src/src/main.ts),
   ParseChainIdPipe (src/src/common/pipes/parse-chain-id.pipe.ts) and
   ChainsController.getChainInfo (src/src/chains/chains.controller.ts).

   A route parameter is a sequence of characters.  A number that is no
   integer keeps its integer part in num and the digits after the point in
   str; NaN is the number whose str is "NaN". *)

NaN == [type |-> "number", num |-> 0, str |-> "NaN"]
isNaN(v) == v.type = "number" /\ v.str = "NaN"

\* the route parameters of the requests
ParamStrings ==
    { <<"1">>, <<"1", "0">>, <<"1", "3", "7">>, <<"0", "1">>, <<"2">>,
      <<"-", "1">>, <<"1", ".", "5">>, <<"a", "b", "c">>,
      <<"1", "a", "b", "c">> }

\* the string a sequence of characters spells
RECURSIVE Text(_)
Text(chars) == IF chars = <<>> THEN "" ELSE Head(chars) \o Text(Tail(chars))

\* the characters of the string of a route parameter
Chars(t) == CHOOSE chars \in ParamStrings : Text(chars) = t

DecimalDigits == <<"0", "1", "2", "3", "4", "5", "6", "7", "8", "9">>
IsDigit(c) == \E i \in DOMAIN DecimalDigits : DecimalDigits[i] = c
DigitValue(c) == (CHOOSE i \in DOMAIN DecimalDigits : DecimalDigits[i] = c) - 1

\* the longest prefix of chars that is all digits
RECURSIVE DigitPrefix(_)
DigitPrefix(chars) ==
    IF chars = <<>> \/ ~IsDigit(Head(chars)) THEN <<>>
    ELSE <<Head(chars)>> \o DigitPrefix(Tail(chars))

\* the integer a sequence of digits writes
RECURSIVE DigitsValue(_)
DigitsValue(digits) ==
    IF digits = <<>> THEN 0
    ELSE DigitsValue(SubSeq(digits, 1, Len(digits) - 1)) * 10
            + DigitValue(digits[Len(digits)])

HasSign(chars) == chars # <<>> /\ Head(chars) \in {"-", "+"}
Unsigned(chars) == IF HasSign(chars) THEN Tail(chars) ELSE chars
Signed(chars, n) == IF HasSign(chars) /\ Head(chars) = "-" THEN 0 - n ELSE n

\* String(v) of a number, as a template literal writes it
NumberToString(v) ==
    IF isNaN(v) THEN "NaN"
    ELSE (IF v.num < 0 THEN "-" \o Digits(0 - v.num) ELSE Digits(v.num))
            \o (IF v.str = "" THEN "" ELSE "." \o v.str)

\* `${v}`
TemplateString(v) == IF v.type = "string" THEN v.str ELSE NumberToString(v)

\* parseInt(v): of a string, the integer its sign and leading digits write,
\* whatever follows them, NaN when it has no leading digit; of a number, the
\* same of String(v), its integer part
parseInt(v) ==
    IF v.type = "number" THEN (IF isNaN(v) THEN NaN ELSE Num(v.num))
    ELSE LET chars == Chars(v.str)
             digits == DigitPrefix(Unsigned(chars))
         IN  IF digits = <<>> THEN NaN
             ELSE Num(Signed(chars, DigitsValue(digits)))

\* +v of a string: the number the whole string writes (sign, digits, and a
\* point with digits after it), NaN when it is no such literal
ToNumber(v) ==
    LET chars == Chars(v.str)
        rest0 == Unsigned(chars)
        int == DigitPrefix(rest0)
        rest1 == SubSeq(rest0, Len(int) + 1, Len(rest0))
        frac == IF rest1 # <<>> /\ Head(rest1) = "."
                THEN DigitPrefix(Tail(rest1)) ELSE <<>>
        whole == \/ rest1 = <<>>
                 \/ Head(rest1) = "." /\ Len(frac) = Len(rest1) - 1
    IN  IF int = <<>> \/ ~whole THEN NaN
        ELSE [type |-> "number", num |-> Signed(chars, DigitsValue(int)),
              str |-> IF DigitsValue(frac) = 0 THEN "" ELSE Text(frac)]

\* the global ValidationPipe on a route parameter whose declared type is a
\* numeric enum (metatype Number): with transform and implicit conversion
\* enabled the parameter becomes +value, otherwise it is handed on as it is
ValidationPipeTransform(value, convert) ==
    IF convert THEN ToNumber(value) ELSE value

\* Object.values(ChainIds): the names of the reverse mappings, then the values
ObjectValues(enum) ==
    [i \in DOMAIN enum |-> Str(enum[i].name)]
        \o [i \in DOMAIN enum |-> Num(enum[i].value)]

\* array.includes(v)
Includes(array, v) == \E i \in DOMAIN array : StrictEquals(array[i], v)

\* new HttpException(message, HttpStatus.BAD_REQUEST)
BadRequest(message) ==
    [name |-> "HttpException", message |-> message, status |-> 400]

\* ParseChainIdPipe.transform(value)
transform(value) ==
    LET valueAsNumber == parseInt(value)
        hasValue == Includes(ObjectValues(ChainIds), valueAsNumber)
    IN  IF isNaN(valueAsNumber)
        THEN Fail(BadRequest(TemplateString(value) \o " is not a valid chainId"))
        ELSE IF ~hasValue
        THEN Fail(BadRequest(NumberToString(valueAsNumber)
                                \o " is not a supported chainId"))
        ELSE Ok(Some(value))

\* ChainsController.getChainInfo(chainId)
getChainInfo(chainId) ==
    LET name == getChainName(chainId)
    IN  IF ~name.ok THEN Fail(name.error)
        ELSE Ok(Some([name |-> name.value[1], chainId |-> chainId]))

----------------------------------------------------------------------------
(* State *)

NoDto == [title |-> None, brand |-> None, flavours |-> None]

CreateDtos ==
    {[title |-> Some(t), brand |-> Some(b), flavours |-> Some(l)] :
        t \in Titles, b \in Brands, l \in FlavourLists}

UpdateDtos ==
    {[title |-> t, brand |-> b, flavours |-> l] :
        t \in {None} \cup {Some(x) : x \in Titles},
        b \in {None} \cup {Some(x) : x \in Brands},
        l \in {None} \cup {Some(x) : x \in UpdateFlavourLists}}

\* the inputs of the catalog operations that run between recommendations
RecommendIds == {"1", "2"}
RecommendUpdateDtos ==
    {[title |-> Some("Good Coffee"), brand |-> None, flavours |-> None]}

\* PaginationQueryDto: limit and offset, each optional
MaxLimit == 2
MaxOffset == 2
PaginationQueryDtos ==
    {[limit |-> l, offset |-> o] :
        l \in {None} \cup {Some(n) : n \in 1..MaxLimit},
        o \in {None} \cup {Some(n) : n \in 0..MaxOffset}}

\* the inputs of the catalog operations that run between findAll calls
FindAllIds == {"1", "2"}
FindAllCreateDtos ==
    {[title |-> Some("Coffee"), brand |-> Some("Coffee Inc."),
      flavours |-> Some(<<>>)]}

\* the numbers getChainName is called with
MaxChainId == 30
ChainIdInputs == {Num(n) : n \in 0..MaxChainId} \cup {Num(137)}

EmptyDb ==
    [coffees |-> {}, flavours |-> {}, events |-> {},
     coffeeSeq |-> 1, flavourSeq |-> 1, eventSeq |-> 1]

\* a store that holds rows already: one coffee with the flavour Vanilla
SeededDb ==
    [coffees |-> {[id |-> 1, title |-> "Coffee", brand |-> "Coffee Inc.",
                   description |-> "", recommendations |-> 0,
                   flavours |-> {1}]},
     flavours |-> {[id |-> 1, name |-> "Vanilla"]},
     events |-> {},
     coffeeSeq |-> 2, flavourSeq |-> 2, eventSeq |-> 1]

Tables(d) == [coffees |-> d.coffees, flavours |-> d.flavours,
              events |-> d.events]

Result(op, id, dto, r, removeCalled) ==
    [op |-> op, id |-> id, dto |-> dto,
     status |-> IF r.ok THEN "ok" ELSE "error",
     error |-> r.error, value |-> r.value, removeCalled |-> removeCalled]

\* a recommendCoffee call: where it stands (pc), the slot of the record it was
\* given, its transaction's writes, what has happened to it so far, and the
\* calls it has made on its query runner, in order (log)
IdleCall ==
    [pc |-> "idle", slot |-> "", tx |-> <<>>, committed |-> FALSE,
     rolledBack |-> FALSE, failedAt |-> "", before |-> 0,
     released |-> FALSE, pending |-> NoError, log |-> <<>>]

Quiescent == \A c \in Calls : call[c].pc \in {"idle", "done"}

\* a catalog operation under way: the operation and its input, where it
\* stands (pc: the store call it makes next), what its store calls answered
\* (flavours, coffee), the flavour names its lookups met in the store (seen),
\* the tasks that were under way when it began (during), the store call that
\* failed (failed) and its outcome (result)
IdleTask ==
    [pc |-> "idle", op |-> "", id |-> "", dto |-> NoDto, flavours |-> None,
     coffee |-> None, seen |-> {}, during |-> {}, failed |-> "",
     result |-> Ok(None)]

Init ==
    /\ db \in {EmptyDb, SeededDb}
    /\ lookupAsync \in BOOLEAN
    /\ held = [s \in AllSlots |-> None]
    /\ call = [c \in AllCalls |-> IdleCall]
    /\ task = [t \in Tasks |-> IdleTask]
    /\ last = Result("", "", NoDto, Ok(None), FALSE)
    /\ old = db

----------------------------------------------------------------------------
(* Actions *)

\* a caller awaits findAll(paginationQuery); the store hands the rows out in
\* one of the orders it may use
FindAll(paginationQuery) ==
    /\ Quiescent
    /\ \E order \in Orders(db.coffees) :
          LET r == findAll(paginationQuery, order, db)
          IN  last' = Result("findAll", "", paginationQuery, r, FALSE)
    /\ old' = db
    /\ UNCHANGED <<task, db, lookupAsync, held, call>>

\* a caller awaits findOne(id) and keeps the record it got in slot s
FindOne(id, s) ==
    /\ Quiescent
    /\ LET r == findOne(id, lookupAsync, db)
       IN  /\ last' = Result("findOne", id, NoDto, r, FALSE)
           /\ held' = IF r.ok /\ IsSome(r.value)
                      THEN [held EXCEPT ![s] = r.value] ELSE held
    /\ old' = db
    /\ UNCHANGED <<task, db, lookupAsync, call>>

Create(dto) ==
    /\ Quiescent
    /\ db.coffeeSeq <= MaxCoffees
    /\ LET r == create(dto, db)
       IN  /\ last' = Result("create", "", dto, r, FALSE)
           /\ db' = r.db
    /\ old' = db
    /\ UNCHANGED <<task, lookupAsync, held, call>>

Update(id, dto) ==
    /\ Quiescent
    /\ LET r == update(id, dto, db)
       IN  /\ last' = Result("update", id, dto, r, FALSE)
           /\ db' = r.db
    /\ old' = db
    /\ UNCHANGED <<task, lookupAsync, held, call>>

Remove(id) ==
    /\ Quiescent
    /\ LET r == remove(id, lookupAsync, db)
       IN  /\ last' = Result("remove", id, NoDto, r, r.removeCalled)
           /\ db' = r.db
    /\ old' = db
    /\ UNCHANGED <<task, lookupAsync, held, call>>

\* The catalog operations store call by store call: between two awaits of one
\* operation the store calls of another may run, and every store call may fail.

\* the first store call of an operation
FirstCall(op, dto) ==
    CASE op = "findAll" -> "find"
      [] op \in {"findOne", "remove"} -> "findOne"
      [] op = "create" -> "findFlavours"
      [] op = "update" -> IF IsSome(dto.flavours) THEN "findFlavours"
                          ELSE "preload"

\* (mutant) the rejection of a store call is caught and the operation answers
\* with nothing
Swallowed(err) == Ok(None)

\* no catalog operation has a try/catch: the rejection of the store call it
\* awaits, or returns, is the rejection of the operation
Raised(err) == Fail(err)

\* the outcome of task t is r, after the store call named at failed (at = "")
Ended(t, r, at) ==
    [task EXCEPT ![t].pc = "done", ![t].result = r, ![t].failed = at]

\* a caller calls the operation op; nothing has been awaited yet
TaskBegin(t, op, id, dto) ==
    /\ task[t].pc \in {"idle", "done"}
    /\ op = "create" => db.coffeeSeq <= MaxCoffees
    /\ task' = [task EXCEPT ![t] = [IdleTask EXCEPT
                    !.pc = FirstCall(op, dto), !.op = op, !.id = id,
                    !.dto = dto,
                    !.during = {u \in Tasks \ {t} :
                                    task[u].pc \notin {"idle", "done"}}]]
    /\ UNCHANGED <<db, lookupAsync, held, call, last, old>>

\* findAll: coffeeRepository.find(...), returned as it is
TaskFind(t, fails) ==
    /\ task[t].pc = "find"
    /\ \E order \in Orders(db.coffees) :
          task' = Ended(t, IF fails THEN Raised(StoreFailure("find"))
                           ELSE findAll(task[t].dto, order, db),
                        IF fails THEN "find" ELSE "")
    /\ UNCHANGED <<db, lookupAsync, held, call, last, old>>

\* findOne, called by a caller or by remove: coffeeRepository.findOne(...)
TaskFindOne(t, fails) ==
    /\ task[t].pc = "findOne"
    /\ LET r == findOne(task[t].id, lookupAsync, db)
       IN  task' = IF fails THEN Ended(t, Raised(StoreFailure("findOne")),
                                       "findOne")
                   ELSE IF task[t].op = "findOne" \/ ~r.ok THEN Ended(t, r, "")
                   ELSE [task EXCEPT ![t].pc = "remove", ![t].coffee = r.value]
    /\ UNCHANGED <<db, lookupAsync, held, call, last, old>>

\* create and update: await Promise.all(flavours.map(preloadFlavourByName)),
\* every lookup answered from the store as it is now
TaskFindFlavours(t, fails) ==
    /\ task[t].pc = "findFlavours"
    /\ LET names == task[t].dto.flavours[1]
           r == PreloadAll(names, db)
       IN  /\ fails => names # <<>>
           /\ task' =
                IF fails THEN Ended(t, Raised(StoreFailure("findFlavours")),
                                    "findFlavours")
                ELSE IF ~r.ok THEN Ended(t, Raised(r.error), "")
                ELSE [task EXCEPT
                        ![t].pc = IF task[t].op = "create" THEN "save"
                                  ELSE "preload",
                        ![t].flavours = Some(r.value),
                        ![t].seen = {r.value[i].name :
                                        i \in {j \in DOMAIN r.value :
                                                  r.value[j].id # 0}}]
    /\ UNCHANGED <<db, lookupAsync, held, call, last, old>>

\* update: await coffeeRepository.preload(...), then the Not-Found test
TaskPreload(t, fails) ==
    /\ task[t].pc = "preload"
    /\ LET coffee == RepoPreload(UnaryPlus(task[t].id), task[t].dto,
                                 task[t].flavours, db)
       IN  task' = IF fails THEN Ended(t, Raised(StoreFailure("preload")),
                                       "preload")
                   ELSE IF ~IsSome(coffee)
                   THEN Ended(t, Fail(NotFound(task[t].id)), "")
                   ELSE [task EXCEPT ![t].pc = "save", ![t].coffee = coffee]
    /\ UNCHANGED <<db, lookupAsync, held, call, last, old>>

\* create and update: coffeeRepository.save(coffee), returned as it is
TaskSave(t, fails) ==
    /\ task[t].pc = "save"
    /\ LET saved == IF task[t].op = "create"
                    THEN RepoInsert(task[t].dto, task[t].flavours[1], db)
                    ELSE RepoSave(task[t].coffee[1], db)
       IN  IF fails
           THEN /\ task' = Ended(t, Raised(StoreFailure("save")), "save")
                /\ UNCHANGED db
           ELSE /\ task' = Ended(t, Ok(Some(saved.entity)), "")
                /\ db' = saved.db
    /\ UNCHANGED <<lookupAsync, held, call, last, old>>

\* remove: coffeeRepository.remove(coffee), returned as it is
TaskRemove(t, fails) ==
    /\ task[t].pc = "remove"
    /\ LET r == RepoRemove(task[t].coffee, db)
       IN  IF fails
           THEN /\ task' = Ended(t, Raised(StoreFailure("remove")), "remove")
                /\ UNCHANGED db
           ELSE /\ task' = Ended(t, IF r.ok THEN Ok(r.value)
                                    ELSE Raised(r.error), "")
                /\ db' = r.db
    /\ UNCHANGED <<lookupAsync, held, call, last, old>>

\* recommendCoffee(coffee) with the record of slot s, up to its first await
Called(c, s) ==
    /\ IsSome(held[s])
    /\ held[s][1].recommendations < MaxRecommends
    /\ db.eventSeq <= MaxRecommends
    /\ call' = [call EXCEPT ![c] = [IdleCall EXCEPT
                    !.pc = "connect", !.slot = s,
                    !.before = held[s][1].recommendations]]
    /\ last' = [op |-> "recommend", id |-> "", dto |-> NoDto,
                status |-> "running", error |-> NoError, value |-> None,
                removeCalled |-> FALSE]
    /\ old' = db
    /\ UNCHANGED <<task, db, lookupAsync, held>>

\* a recommendCoffee call made when no other recommendCoffee call is under way
RecommendBegin(c, s) == Quiescent /\ Called(c, s)

\* a recommendCoffee call made whatever the other caller is doing; every
\* caller calls once
RecommendStart(c, s) == call[c].pc = "idle" /\ Called(c, s)

\* the call ends: normally, or with the error e raised to the caller
Finished(c, e) ==
    last' = [last EXCEPT !.status = IF e = NoError THEN "ok" ELSE "error",
                         !.error = e]

\* await queryRunner.connect(), outside the try
Connect(c, fails) ==
    /\ call[c].pc = "connect"
    /\ IF fails
       THEN /\ call' = [call EXCEPT ![c].pc = "done", ![c].failedAt = "connect",
                                    ![c].log = Append(@, "connect")]
            /\ Finished(c, StoreFailure("connect"))
       ELSE /\ call' = [call EXCEPT ![c].pc = "start",
                                    ![c].log = Append(@, "connect")]
            /\ UNCHANGED last
    /\ UNCHANGED <<task, db, lookupAsync, held, old>>

\* await queryRunner.startTransaction(), outside the try
StartTransaction(c, fails) ==
    /\ call[c].pc = "start"
    /\ IF fails
       THEN /\ call' = [call EXCEPT ![c].pc = "done", ![c].failedAt = "start",
                                    ![c].log = Append(@, "startTransaction")]
            /\ Finished(c, StoreFailure("start"))
       ELSE /\ call' = [call EXCEPT ![c].pc = "saveCoffee",
                                    ![c].log = Append(@, "startTransaction")]
            /\ UNCHANGED last
    /\ UNCHANGED <<task, db, lookupAsync, held, old>>

\* coffee.recommendations++, the event is built, await manager.save(coffee)
SaveCoffee(c, fails) ==
    /\ call[c].pc = "saveCoffee"
    /\ LET s == call[c].slot
           coffee == Recommended(held[s][1])
           r == ManagerSave(CoffeeWrite(coffee), call[c].tx, db)
       IN  /\ held' = [held EXCEPT ![s] = Some(coffee)]
           /\ IF fails
              THEN /\ call' = [call EXCEPT ![c].pc = "rollback",
                                           ![c].failedAt = "saveCoffee",
                                           ![c].log = Append(@, "save")]
                   /\ UNCHANGED db
              ELSE /\ call' = [call EXCEPT ![c].pc = "saveEvent",
                                           ![c].tx = r.tx,
                                           ![c].log = Append(@, "save")]
                   /\ db' = r.db
    /\ UNCHANGED <<task, lookupAsync, last, old>>

\* await manager.save(recommendEvent); the id sequence advances at once
SaveEvent(c, fails) ==
    /\ call[c].pc = "saveEvent"
    /\ LET coffee == held[call[c].slot][1]
           r == ManagerSave(EventWrite(RecommendEvent(coffee, db.eventSeq)),
                            call[c].tx, db)
       IN  IF fails
           THEN /\ call' = [call EXCEPT ![c].pc = "rollback",
                                        ![c].failedAt = "saveEvent",
                                        ![c].log = Append(@, "save")]
                /\ UNCHANGED db
           ELSE /\ call' = [call EXCEPT ![c].pc = "commit", ![c].tx = r.tx,
                                        ![c].log = Append(@, "save")]
                /\ db' = [r.db EXCEPT !.eventSeq = @ + 1]
    /\ UNCHANGED <<task, lookupAsync, held, last, old>>

\* await queryRunner.commitTransaction()
Commit(c, fails) ==
    /\ call[c].pc = "commit"
    /\ IF fails
       THEN /\ call' = [call EXCEPT ![c].pc = "rollback",
                                    ![c].failedAt = "commit",
                                    ![c].log = Append(@, "commitTransaction")]
            /\ UNCHANGED db
       ELSE /\ call' = [call EXCEPT ![c].pc = "release", ![c].tx = <<>>,
                                    ![c].committed = TRUE,
                                    ![c].log = Append(@, "commitTransaction")]
            /\ db' = CommitTransaction(call[c].tx, db)
    /\ UNCHANGED <<task, lookupAsync, held, last, old>>

\* (mutant) catch (err) {}: the error is dropped and nothing is rolled back
RollbackSkipped(c, fails) ==
    /\ call[c].pc = "rollback"
    /\ call' = [call EXCEPT ![c].pc = "release", ![c].tx = <<>>,
                            ![c].pending =
                                Caught(StoreFailure(call[c].failedAt))]
    /\ db' = RollbackTransaction(call[c].tx, db)
    /\ UNCHANGED <<task, lookupAsync, held, last, old>>

\* catch (err) { await queryRunner.rollbackTransaction() }: err is dropped; an
\* error of the rollback itself is raised once the finally block has run
Rollback(c, fails) ==
    /\ call[c].pc = "rollback"
    /\ call' = [call EXCEPT ![c].pc = "release", ![c].tx = <<>>,
                            ![c].rolledBack = ~fails,
                            ![c].pending =
                                IF fails THEN StoreFailure("rollback")
                                ELSE Caught(StoreFailure(call[c].failedAt)),
                            ![c].log = Append(@, "rollbackTransaction")]
    /\ db' = RollbackTransaction(call[c].tx, db)
    /\ UNCHANGED <<task, lookupAsync, held, last, old>>

\* finally { await queryRunner.release() }
Release(c, fails) ==
    /\ call[c].pc = "release"
    /\ call' = [call EXCEPT ![c].pc = "done", ![c].released = ~fails,
                            ![c].log = Append(@, "release")]
    /\ Finished(c, IF fails THEN StoreFailure("release") ELSE call[c].pending)
    /\ UNCHANGED <<task, db, lookupAsync, held, old>>

\* a caller calls chainService.getChainName(chainId)
GetChainName(chainId) ==
    /\ Quiescent
    /\ last' = Result("getChainName", "", [chainId |-> chainId],
                      getChainName(chainId), FALSE)
    /\ old' = db
    /\ UNCHANGED <<task, db, lookupAsync, held, call>>

\* GET /chains/:chainId with the route parameter param: the global pipe, the
\* parameter's pipe, then the handler; convert tells whether the application
\* was set up with the converting ValidationPipe (main.ts) or without it
GetChainInfo(param, convert) ==
    /\ Quiescent
    /\ LET received == ValidationPipeTransform(Str(Text(param)), convert)
           piped == transform(received)
           r == IF piped.ok THEN getChainInfo(piped.value[1]) ELSE piped
       IN  last' = Result("getChainInfo", Text(param),
                         [convert |-> convert, received |-> received,
                          handed |-> piped.value, nameCalled |-> piped.ok],
                         r, FALSE)
    /\ old' = db
    /\ UNCHANGED <<task, db, lookupAsync, held, call>>

\* the catalog operations, one call at a time
Next ==
    \/ \E id \in IdStrings, s \in Slots : FindOne(id, s)
    \/ \E dto \in CreateDtos : Create(dto)
    \/ \E id \in IdStrings, dto \in UpdateDtos : Update(id, dto)
    \/ \E id \in IdStrings : Remove(id)

Spec == Init /\ [][Next]_vars

\* recommendCoffee await by await, with failures of the store at every await,
\* between catalog operations that load, retitle and remove the coffees
NextRecommend ==
    \/ \E id \in RecommendIds, s \in Slots : FindOne(id, s)
    \/ \E id \in RecommendIds, dto \in RecommendUpdateDtos : Update(id, dto)
    \/ \E id \in RecommendIds : Remove(id)
    \/ \E c \in Calls, s \in Slots : RecommendBegin(c, s)
    \/ \E c \in Calls, fails \in BOOLEAN : Connect(c, fails)
    \/ \E c \in Calls, fails \in BOOLEAN : StartTransaction(c, fails)
    \/ \E c \in Calls, fails \in BOOLEAN : SaveCoffee(c, fails)
    \/ \E c \in Calls, fails \in BOOLEAN : SaveEvent(c, fails)
    \/ \E c \in Calls, fails \in BOOLEAN : Commit(c, fails)
    \/ \E c \in Calls, fails \in BOOLEAN : Rollback(c, fails)
    \/ \E c \in Calls, fails \in BOOLEAN : Release(c, fails)

SpecRecommend == Init /\ [][NextRecommend]_vars

\* the pages of findAll over catalogs that grow and shrink
NextFindAll ==
    \/ \E q \in PaginationQueryDtos : FindAll(q)
    \/ \E dto \in FindAllCreateDtos : Create(dto)
    \/ \E id \in FindAllIds : Remove(id)

SpecFindAll == Init /\ [][NextFindAll]_vars

\* every operation of the service: the catalog operations one call at a time
\* and recommendCoffee await by await
EventPaginationQueryDtos == {[limit |-> Some(1), offset |-> None]}

EventIds == {"1"}

NextEvents ==
    \/ \E q \in EventPaginationQueryDtos : FindAll(q)
    \/ \E id \in EventIds, s \in Slots : FindOne(id, s)
    \/ \E dto \in FindAllCreateDtos : Create(dto)
    \/ \E id \in EventIds, dto \in RecommendUpdateDtos : Update(id, dto)
    \/ \E id \in EventIds : Remove(id)
    \/ \E c \in Calls, s \in Slots : RecommendBegin(c, s)
    \/ \E c \in Calls, fails \in BOOLEAN : Connect(c, fails)
    \/ \E c \in Calls, fails \in BOOLEAN : StartTransaction(c, fails)
    \/ \E c \in Calls, fails \in BOOLEAN : SaveCoffee(c, fails)
    \/ \E c \in Calls, fails \in BOOLEAN : SaveEvent(c, fails)
    \/ \E c \in Calls, fails \in BOOLEAN : Commit(c, fails)
    \/ \E c \in Calls, fails \in BOOLEAN : Rollback(c, fails)
    \/ \E c \in Calls, fails \in BOOLEAN : Release(c, fails)

SpecEvents == Init /\ [][NextEvents]_vars

\* a recommendCoffee call with a record as findOne has just loaded it: the
\* record is what a lookup of its id answers now
RecommendFresh(c, s) ==
    /\ IsSome(held[s])
    /\ held[s] = CoffeeFindOneById(held[s][1].id, db)
    /\ RecommendBegin(c, s)

\* every operation of the service, one call at a time, recommendCoffee always
\* with a freshly loaded record
NextFresh ==
    \/ \E q \in EventPaginationQueryDtos : FindAll(q)
    \/ \E id \in EventIds, s \in Slots : FindOne(id, s)
    \/ \E dto \in FindAllCreateDtos : Create(dto)
    \/ \E id \in EventIds, dto \in RecommendUpdateDtos : Update(id, dto)
    \/ \E id \in EventIds : Remove(id)
    \/ \E c \in Calls, s \in Slots : RecommendFresh(c, s)
    \/ \E c \in Calls, fails \in BOOLEAN : Connect(c, fails)
    \/ \E c \in Calls, fails \in BOOLEAN : StartTransaction(c, fails)
    \/ \E c \in Calls, fails \in BOOLEAN : SaveCoffee(c, fails)
    \/ \E c \in Calls, fails \in BOOLEAN : SaveEvent(c, fails)
    \/ \E c \in Calls, fails \in BOOLEAN : Commit(c, fails)
    \/ \E c \in Calls, fails \in BOOLEAN : Rollback(c, fails)
    \/ \E c \in Calls, fails \in BOOLEAN : Release(c, fails)

SpecFresh == Init /\ [][NextFresh]_vars

\* two callers that each load the coffee into a record of their own and call
\* recommendCoffee with it, await by await; a transaction's writes reach the
\* tables at its commit (read committed)
SlotOf(c) == IF c = "r1" THEN "s1" ELSE "s2"

\* a caller loads the coffee into its record; the record a call under way
\* was given stays the object it is
Load(id, s) ==
    /\ \A c \in AllCalls : call[c].slot = s => call[c].pc = "done"
    /\ FindOne(id, s)

NextOverlap ==
    \/ \E id \in EventIds, s \in AllSlots : Load(id, s)
    \/ \E c \in AllCalls : RecommendStart(c, SlotOf(c))
    \/ \E c \in AllCalls, fails \in BOOLEAN : Connect(c, fails)
    \/ \E c \in AllCalls, fails \in BOOLEAN : StartTransaction(c, fails)
    \/ \E c \in AllCalls, fails \in BOOLEAN : SaveCoffee(c, fails)
    \/ \E c \in AllCalls, fails \in BOOLEAN : SaveEvent(c, fails)
    \/ \E c \in AllCalls, fails \in BOOLEAN : Commit(c, fails)
    \/ \E c \in AllCalls, fails \in BOOLEAN : Rollback(c, fails)
    \/ \E c \in AllCalls, fails \in BOOLEAN : Release(c, fails)

SpecOverlap == Init /\ [][NextOverlap]_vars

\* two callers of the catalog operations at once, store call by store call
TaskIds == {"1"}

TaskPaginationQueryDtos == {[limit |-> Some(1), offset |-> None]}

TaskCreateDtos ==
    {[title |-> Some("Coffee"), brand |-> Some("Coffee Inc."),
      flavours |-> Some(l)] : l \in {<<>>, <<"Mocha">>}}

TaskUpdateDtos ==
    {[title |-> Some("Good Coffee"), brand |-> None, flavours |-> None],
     [title |-> None, brand |-> None, flavours |-> Some(<<"Mocha">>)]}

NextTasks ==
    \/ \E t \in Tasks, q \in TaskPaginationQueryDtos :
          TaskBegin(t, "findAll", "", q)
    \/ \E t \in Tasks, id \in TaskIds, op \in {"findOne", "remove"} :
          TaskBegin(t, op, id, NoDto)
    \/ \E t \in Tasks, dto \in TaskCreateDtos : TaskBegin(t, "create", "", dto)
    \/ \E t \in Tasks, id \in TaskIds, dto \in TaskUpdateDtos :
          TaskBegin(t, "update", id, dto)
    \/ \E t \in Tasks, fails \in BOOLEAN : TaskFind(t, fails)
    \/ \E t \in Tasks, fails \in BOOLEAN : TaskFindOne(t, fails)
    \/ \E t \in Tasks, fails \in BOOLEAN : TaskFindFlavours(t, fails)
    \/ \E t \in Tasks, fails \in BOOLEAN : TaskPreload(t, fails)
    \/ \E t \in Tasks, fails \in BOOLEAN : TaskSave(t, fails)
    \/ \E t \in Tasks, fails \in BOOLEAN : TaskRemove(t, fails)

SpecTasks == Init /\ [][NextTasks]_vars

\* the chains service, called with one number after another
NextChains ==
    \/ \E chainId \in ChainIdInputs : GetChainName(chainId)
    \/ \E param \in ParamStrings, convert \in BOOLEAN :
          GetChainInfo(param, convert)

SpecChains == Init /\ [][NextChains]_vars

----------------------------------------------------------------------------
(* Properties.  In every state, last is the operation that ran last, old the
   store it started from and db the store it left. *)

Names(list) == {list[i] : i \in DOMAIN list}
ExistingNames(list, d) == {n \in Names(list) : \E f \in d.flavours : f.name = n}
LastId == UnaryPlus(last.id)
\* an id the sequence has handed out and that has no row: its row was removed
WasRemoved(n, d) == n < d.coffeeSeq /\ ~HasRow(d.coffees, n)

\* C1: findOne(id) for an id that matches no Coffee row fails with the Not-Found
\* error "Coffee <id> not found", whether the lookup answers with a Promise or
\* with the value; it never completes with a null value.
C1_FindOneMissingIsNotFound ==
    (last.op = "findOne" /\ ~HasRow(old.coffees, LastId))
        => (last.status = "error" /\ last.error = NotFound(last.id))

\* C2: a create whose input names a flavour that exists already associates the
\* new coffee with the existing Flavour row and inserts no Flavour row of that
\* name, so that no two Flavour rows share a name afterwards.
C2_CreateReusesExistingFlavour ==
    (last.op = "create" /\ ExistingNames(last.dto.flavours[1], old) # {})
        => /\ last.status = "ok"
           /\ HasRow(db.coffees, last.value[1].id)
           /\ \A f \in old.flavours :
                 f.name \in Names(last.dto.flavours[1])
                     => f.id \in RowOf(db.coffees, last.value[1].id).flavours
           /\ \A f \in db.flavours \ old.flavours :
                 f.name \notin ExistingNames(last.dto.flavours[1], old)
           /\ \A f, g \in db.flavours : f.name = g.name => f = g

\* C3: recommend is atomic.  In every state of a recommendCoffee call the
\* counter write and the Event row are both in the tables or both absent, and
\* once saving the coffee, saving the event or the commit has failed the tables
\* are what they were before the call.
C3_RecommendAtomic ==
    \A c \in Calls :
        (last.op = "recommend" /\ call[c].pc # "idle")
            => /\ (db.coffees # old.coffees) <=> (db.events # old.events)
               /\ call[c].failedAt \in {"saveCoffee", "saveEvent", "commit"}
                     => Tables(db) = Tables(old)

\* a call whose commit failed after both saves, rolled back and released
C3_Witness ==
    \E c \in Calls :
        /\ last.op = "recommend" /\ call[c].pc = "done"
        /\ call[c].failedAt = "commit" /\ call[c].rolledBack
        /\ Tables(db) = Tables(old)

\* C4: after a recommendCoffee call that committed, the record's counter is one
\* greater than before the call, the stored row carries that value, and exactly
\* one Event row was added: "recommend_coffee", "coffee", payload the coffee's id.
C4_RecommendCommitted ==
    \A c \in Calls :
        (last.op = "recommend" /\ call[c].committed)
            => LET coffee == held[call[c].slot][1]
                   added == db.events \ old.events
               IN  /\ coffee.recommendations = call[c].before + 1
                   /\ HasRow(db.coffees, coffee.id)
                   /\ RowOf(db.coffees, coffee.id).recommendations
                          = call[c].before + 1
                   /\ old.events \subseteq db.events
                   /\ Cardinality(added) = 1
                   /\ \A e \in added :
                         /\ e.name = "recommend_coffee"
                         /\ e.type = "coffee"
                         /\ e.payload = [coffeeId |-> coffee.id]

\* a call that went through to the commit and returned normally
C4_Witness ==
    \E c \in Calls :
        /\ last.op = "recommend" /\ last.status = "ok"
        /\ call[c].pc = "done" /\ call[c].committed

\* C5: an update of an existing coffee whose input has flavours, even an empty
\* list, replaces the coffee's associations by the flavours the names resolve
\* to, existing names by their existing rows.
C5_UpdateReplacesFlavours ==
    (last.op = "update" /\ HasRow(old.coffees, LastId)
                        /\ IsSome(last.dto.flavours))
        => /\ last.status = "ok"
           /\ HasRow(db.coffees, LastId)
           /\ LET names == Names(last.dto.flavours[1])
                  ids == RowOf(db.coffees, LastId).flavours
              IN  /\ {f.name : f \in {g \in db.flavours : g.id \in ids}} = names
                  /\ Cardinality(ids) = Cardinality(names)
                  /\ \A f \in old.flavours : f.name \in names => f.id \in ids

\* C6: an update of an id that matches no Coffee row fails with the Not-Found
\* error "Coffee <id> not found".
C6_UpdateMissingIsNotFound ==
    (last.op = "update" /\ ~HasRow(old.coffees, LastId))
        => (last.status = "error" /\ last.error = NotFound(last.id))

\* C7: a remove of an id that matches no Coffee row fails with findOne's
\* Not-Found error and hands nothing to the repository to delete.
C7_RemoveMissingIsNotFound ==
    (last.op = "remove" /\ ~HasRow(old.coffees, LastId))
        => /\ last.status = "error"
           /\ last.error = NotFound(last.id)
           /\ ~last.removeCalled
           /\ Tables(db) = Tables(old)

\* C8: a remove of an existing coffee deletes its row and returns the record as
\* it was, and every later findOne of that id fails with Not-Found.
C8_RemovedIsUnfindable ==
    /\ (last.op = "remove" /\ HasRow(old.coffees, LastId))
          => /\ last.status = "ok"
             /\ ~HasRow(db.coffees, LastId)
             /\ last.value
                  = Some([LoadCoffee(RowOf(old.coffees, LastId), old)
                             EXCEPT !.id = 0])
    /\ (last.op = "findOne" /\ WasRemoved(LastId, old))
          => (last.status = "error" /\ last.error = NotFound(last.id))

\* C9: a create whose flavours are N distinct names, none of them a Flavour row
\* yet, inserts one Coffee row associated with exactly N Flavour rows, all of
\* them inserted by this call.
C9_CreateInsertsNewFlavours ==
    (last.op = "create"
        /\ Cardinality(Names(last.dto.flavours[1])) = Len(last.dto.flavours[1])
        /\ ExistingNames(last.dto.flavours[1], old) = {})
        => /\ last.status = "ok"
           /\ old.coffees \subseteq db.coffees
           /\ Cardinality(db.coffees \ old.coffees) = 1
           /\ \A row \in db.coffees \ old.coffees :
                 /\ Cardinality(row.flavours) = Len(last.dto.flavours[1])
                 /\ row.flavours = {f.id : f \in db.flavours \ old.flavours}
                 /\ \A f \in old.flavours : f.id \notin row.flavours

\* C10: create returns the persisted Coffee: a generated id, the input's title
\* and brand, recommendations 0, description "", and one flavour per input name,
\* in the input's order.
C10_CreateReturnsPersisted ==
    (last.op = "create")
        => /\ last.status = "ok"
           /\ LET coffee == last.value[1]
              IN  /\ coffee.id > 0
                  /\ ~HasRow(old.coffees, coffee.id)
                  /\ HasRow(db.coffees, coffee.id)
                  /\ coffee.title = last.dto.title[1]
                  /\ coffee.brand = last.dto.brand[1]
                  /\ coffee.recommendations = 0
                  /\ coffee.description = ""
                  /\ IsSome(coffee.flavours)
                  /\ [i \in DOMAIN coffee.flavours[1]
                         |-> coffee.flavours[1][i].name] = last.dto.flavours[1]
                  /\ \A i \in DOMAIN coffee.flavours[1] :
                         coffee.flavours[1][i].id > 0

\* C11: findAll({limit, offset}) returns, eager-loaded with their flavours, at
\* most limit coffees, all of them stored rows taken after the first offset
\* rows: as many as remain after offset, cut at limit, no row twice.  It never
\* fails, and over an empty table it returns the empty list.
C11_FindAllPage ==
    (last.op = "findAll")
        => /\ last.status = "ok"
           /\ IsSome(last.value)
           /\ LET page == last.value[1]
                  n == Cardinality(old.coffees)
                  offset == IF IsSome(last.dto.offset)
                            THEN last.dto.offset[1] ELSE 0
                  remain == IF n > offset THEN n - offset ELSE 0
              IN  /\ IsSome(last.dto.limit) => Len(page) <= last.dto.limit[1]
                  /\ Len(page) = IF IsSome(last.dto.limit)
                                     /\ last.dto.limit[1] < remain
                                  THEN last.dto.limit[1] ELSE remain
                  /\ \A i, j \in DOMAIN page :
                         page[i].id = page[j].id => i = j
                  /\ \A i \in DOMAIN page :
                         /\ HasRow(old.coffees, page[i].id)
                         /\ IsSome(page[i].flavours)
                         /\ FlavourIds(page[i].flavours[1])
                                = RowOf(old.coffees, page[i].id).flavours
                  /\ old.coffees = {} => page = <<>>
           /\ db = old

\* a page cut at both ends: limit 1 and offset 1 over two stored coffees
C11_Witness ==
    /\ last.op = "findAll"
    /\ last.dto = [limit |-> Some(1), offset |-> Some(1)]
    /\ Cardinality(old.coffees) = 2
    /\ Len(last.value[1]) = 1

\* C12: an update of an existing coffee succeeds and overwrites exactly the
\* fields its input has: a title or brand that is absent, the description, the
\* counter, and the associations when flavours is absent keep their stored
\* values; the returned Coffee carries the row's columns as they are then, and
\* no other coffee changes.
C12_UpdateFrame ==
    (last.op = "update" /\ HasRow(old.coffees, LastId))
        => /\ last.status = "ok"
           /\ HasRow(db.coffees, LastId)
           /\ LET before == RowOf(old.coffees, LastId)
                  after == RowOf(db.coffees, LastId)
                  coffee == last.value[1]
              IN  /\ after.title = IF IsSome(last.dto.title)
                                   THEN last.dto.title[1] ELSE before.title
                  /\ after.brand = IF IsSome(last.dto.brand)
                                   THEN last.dto.brand[1] ELSE before.brand
                  /\ after.description = before.description
                  /\ after.recommendations = before.recommendations
                  /\ ~IsSome(last.dto.flavours)
                        => after.flavours = before.flavours
                  /\ coffee.id = after.id
                  /\ coffee.title = after.title
                  /\ coffee.brand = after.brand
                  /\ coffee.description = after.description
                  /\ coffee.recommendations = after.recommendations
                  /\ IsSome(coffee.flavours)
                        => FlavourIds(coffee.flavours[1]) = after.flavours
           /\ {r \in db.coffees : r.id # LastId}
                 = {r \in old.coffees : r.id # LastId}

\* the positions of the runner call m in a call's log
Positions(log, m) == {i \in DOMAIN log : log[i] = m}

\* C13: after a recommendCoffee call in which a step failed, the counter of the
\* stored row and the counter of the record the caller passed in are both what
\* they were before the call.
C13_FailedRecommendLeavesCoffee ==
    \A c \in Calls :
        (last.op = "recommend" /\ call[c].pc = "done" /\ call[c].failedAt # "")
            => LET coffee == held[call[c].slot][1]
               IN  /\ coffee.recommendations = call[c].before
                   /\ HasRow(old.coffees, coffee.id)
                         => /\ HasRow(db.coffees, coffee.id)
                            /\ RowOf(db.coffees, coffee.id).recommendations
                                  = RowOf(old.coffees, coffee.id).recommendations

C15_RunnerReleasedOnce ==
    \A c \in Calls :
        (last.op = "recommend" /\ call[c].pc = "done")
            => /\ Cardinality(Positions(call[c].log, "release")) = 1
               /\ call[c].failedAt # ""
                     => \E i \in Positions(call[c].log, "rollbackTransaction") :
                           \A j \in Positions(call[c].log, "release") : i < j

C17_RemoveKeepsFlavours ==
    (last.op = "remove")
        => /\ db.flavours = old.flavours
           /\ \A r \in old.coffees : r.id # LastId => r \in db.coffees
           /\ db.coffees \subseteq old.coffees

\* a coffee that had flavours was removed, and another coffee is left
C17_Witness ==
    /\ last.op = "remove" /\ last.status = "ok"
    /\ HasRow(old.coffees, LastId) /\ ~HasRow(db.coffees, LastId)
    /\ RowOf(old.coffees, LastId).flavours # {}
    /\ db.coffees # {}
    /\ db.flavours # {}

\* C18: the Event table is append-only.  No step of any service operation
\* changes or deletes an Event row, and the only step that adds one is the
\* commit of a recommendCoffee call: findAll, findOne, create, update and
\* remove add none.
C18_EventsAppendOnly ==
    [][/\ db.events \subseteq db'.events
       /\ db'.events # db.events
             => \E c \in Calls : /\ call[c].pc = "commit"
                                 /\ call'[c].committed]_vars

\* an Event row is in the table and a catalog operation has run since
C18_Witness ==
    /\ db.events # {}
    /\ last.op \in {"findAll", "findOne", "create", "update", "remove"}
    /\ last.status = "ok"
    /\ db.events = old.events

\* C19: findOne(id) with a string id looks the coffee up by the integer the
\* string converts to ("01" is 1) and, when a row matches, returns that row's
\* Coffee record with its flavours loaded; the store is left as it was.
C19_FindOneConvertsId ==
    (last.op = "findOne" /\ HasRow(old.coffees, LastId))
        => /\ last.status = "ok"
           /\ IsSome(last.value)
           /\ last.id = "01" => last.value[1].id = 1
           /\ LET coffee == last.value[1]
                  row == RowOf(old.coffees, LastId)
              IN  /\ coffee.id = row.id
                  /\ coffee.title = row.title
                  /\ coffee.brand = row.brand
                  /\ coffee.description = row.description
                  /\ coffee.recommendations = row.recommendations
                  /\ IsSome(coffee.flavours)
                  /\ {coffee.flavours[1][i] : i \in DOMAIN coffee.flavours[1]}
                        = {f \in old.flavours : f.id \in row.flavours}
                  /\ Len(coffee.flavours[1]) = Cardinality(row.flavours)
           /\ db = old

\* findOne("01") has returned the coffee of id 1 with the flavour it has
C19_Witness ==
    /\ last.op = "findOne" /\ last.id = "01" /\ last.status = "ok"
    /\ IsSome(last.value)
    /\ last.value[1].id = 1
    /\ IsSome(last.value[1].flavours)
    /\ last.value[1].flavours[1] # <<>>

\* C20: getChainName(chainId) returns the name of the ChainIds member whose
\* value is chainId, for every member ("Ethereum" for 1), and throws a
\* TypeError for every number that is the value of no member.
C20_GetChainName ==
    (last.op = "getChainName" /\ last.dto.chainId.type = "number")
        => LET n == last.dto.chainId.num
               members == {i \in DOMAIN ChainIds : ChainIds[i].value = n}
           IN  /\ n = 1 => last.value = Some("Ethereum")
               /\ \A i \in members :
                      /\ last.status = "ok"
                      /\ last.value = Some(ChainIds[i].name)
               /\ members = {}
                     => /\ last.status = "error"
                        /\ last.error.name = "TypeError"
                        /\ last.value = None

\* getChainName(ChainIds.Ethereum) has returned "Ethereum"
C20_Witness ==
    /\ last.op = "getChainName"
    /\ last.dto.chainId = Num(1)
    /\ last.status = "ok"
    /\ last.value = Some("Ethereum")

\* C21: a chain lookup with an unsupported chain id is rejected.  A parameter
\* that is a number and no ChainIds value ("2", "-1", "1.5") fails with the
\* HttpException "<id> is not a supported chainId", a parameter that is no
\* number ("abc", "1abc") with "<value> is not a valid chainId", both with
\* status 400, and getChainName is not called for either.
C21_UnsupportedChainIdRejected ==
    (last.op = "getChainInfo")
        => /\ last.id \in {"2", "-1", "1.5"}
                 => /\ last.status = "error"
                    /\ last.error
                          = BadRequest(last.id \o " is not a supported chainId")
                    /\ ~last.dto.nameCalled
           /\ last.id \in {"abc", "1abc"}
                 => /\ last.status = "error"
                    /\ last.error
                          = BadRequest(last.id \o " is not a valid chainId")
                    /\ ~last.dto.nameCalled

\* C22: whatever parameter ParseChainIdPipe accepts, the value it hands to the
\* controller is a number that is the value of a ChainIds member, and the
\* request returns {name, chainId} with that member's name; no TypeError.
C22_PipeHandsEnumValue ==
    (last.op = "getChainInfo" /\ IsSome(last.dto.handed))
        => LET chainId == last.dto.handed[1]
           IN  /\ chainId.type = "number" /\ chainId.str = ""
               /\ \E i \in DOMAIN ChainIds :
                      /\ ChainIds[i].value = chainId.num
                      /\ last.value = Some([name |-> ChainIds[i].name,
                                             chainId |-> chainId])
               /\ last.status = "ok"
               /\ last.error.name # "TypeError"

\* the flavour names both create tasks t and u were given and neither met in
\* the store when it looked them up
UnseenByBoth(t, u) ==
    (Names(task[t].dto.flavours[1]) \cap Names(task[u].dto.flavours[1]))
        \ (task[t].seen \cup task[u].seen)

\* C23: two create operations that overlap, are given the same flavour name,
\* both look it up before either saves (so neither lookup meets a row) and both
\* run to their end without a store failure, leave two Flavour rows with that
\* name.
C23_ConcurrentCreatesDuplicateFlavour ==
    \A t \in Tasks, u \in Tasks :
        ( /\ t # u
          /\ task[t].op = "create" /\ task[u].op = "create"
          /\ task[t].pc = "done" /\ task[u].pc = "done"
          /\ task[t].failed = "" /\ task[u].failed = ""
          /\ t \in task[u].during )
            => \A n \in UnseenByBoth(t, u) :
                  Cardinality({f \in db.flavours : f.name = n}) >= 2

\* the "recommend_coffee" Event rows of d that refer to the coffee n
RecommendEventsOf(n, d) ==
    {e \in d.events : e.name = "recommend_coffee" /\ e.payload.coffeeId = n}

\* C24: when two recommendCoffee calls, each with its own record of the same
\* coffee loaded at the same counter value, have both committed, two Event rows
\* for the coffee are stored and the stored counter is that value plus 1: one
\* recommendation is lost.
C24_LostRecommendation ==
    \A c \in AllCalls, e \in AllCalls :
        ( /\ c # e
          /\ call[c].committed /\ call[e].committed
          /\ call[c].slot # call[e].slot
          /\ held[call[c].slot][1].id = held[call[e].slot][1].id
          /\ call[c].before = call[e].before )
            => LET n == held[call[c].slot][1].id
               IN  /\ HasRow(db.coffees, n)
                   /\ RowOf(db.coffees, n).recommendations = call[c].before + 1
                   /\ Cardinality(RecommendEventsOf(n, db)) = 2

\* both transactions were open at the same time and both have committed
C24_Witness ==
    /\ call["r1"].committed /\ call["r2"].committed
    /\ call["r1"].pc = "release" /\ call["r2"].pc = "release"
    /\ call["r1"].before = call["r2"].before
    /\ held["s1"][1].id = held["s2"][1].id
    /\ Cardinality(RecommendEventsOf(held["s1"][1].id, db)) = 2
    /\ RowOf(db.coffees, held["s1"][1].id).recommendations
          = call["r1"].before + 1

\* the transaction of call c was started
Started(c) ==
    Positions(call[c].log, "startTransaction") # {} /\ call[c].failedAt # "start"

C26_StoreFailureRaised ==
    \A t \in Tasks :
        (task[t].pc = "done" /\ task[t].failed # "")
            => /\ task[t].op \in {"findAll", "findOne", "create", "update",
                                  "remove"}
               /\ ~task[t].result.ok
               /\ task[t].result.error = StoreFailure(task[t].failed)
               /\ task[t].result.value = None

\* an update whose save was rejected by the store, after its preload succeeded
C26_Witness ==
    \E t \in Tasks :
        /\ task[t].pc = "done"
        /\ task[t].op = "update"
        /\ task[t].failed = "save"
        /\ IsSome(task[t].coffee)
        /\ task[t].result = Fail(StoreFailure("save"))

\* C27: an update fails with Not-Found only when preload finds no row for the
\* id, and it has then written nothing: the store is as it was.  An update of
\* an id without a row never writes: it fails, with Not-Found once its flavour
\* lookups have answered and preload has been asked, with the lookups' own
\* error when they reject before that.
C27_NotFoundUpdateWritesNothing ==
    (last.op = "update")
        => /\ last.error = NotFound(last.id)
                 => /\ ~HasRow(old.coffees, LastId)
                    /\ last.status = "error"
                    /\ db = old
           /\ ~HasRow(old.coffees, LastId)
                 => /\ last.status = "error"
                    /\ db = old
                    /\ last.error \in {NotFound(last.id),
                                       EntityPropertyNotFound("name",
                                            FlavourRepositoryTarget)}
                    /\ last.error.name # "EntityPropertyNotFoundError"
                          => last.error = NotFound(last.id)

\* an update of an id that has no row, next to a coffee that has one
C27_Witness ==
    /\ last.op = "update"
    /\ last.id = "2"
    /\ IsSome(last.dto.title)
    /\ last.dto.flavours = Some(<<>>)
    /\ HasRow(old.coffees, 1)
    /\ last.status = "error"
    /\ last.error = NotFound("2")
    /\ db = old

\* C28: an id whose row was removed never has a Coffee row again: no step of
\* update or of recommendCoffee, also with a record loaded before the removal,
\* inserts a row under a removed id (create inserts under new ids only).
C28_RemovedStaysRemoved ==
    [][\A n \in 1..(db.coffeeSeq - 1) :
          WasRemoved(n, db) => ~HasRow(db'.coffees, n)]_vars

\* C29: a recommendCoffee call changes, of the rows stored when it was called,
\* only the recommendations column of its coffee, and adds Event rows: title,
\* brand, description and flavours of that coffee, every other Coffee row and
\* every Flavour row are as they were, also when the record was loaded before a
\* later update of the coffee.
C29_RecommendFrame ==
    (last.op = "recommend")
        => /\ db.flavours = old.flavours
           /\ old.events \subseteq db.events
           /\ \A r \in old.coffees :
                 \E q \in db.coffees :
                    /\ q.id = r.id
                    /\ q.title = r.title
                    /\ q.brand = r.brand
                    /\ q.description = r.description
                    /\ q.flavours = r.flavours
                    /\ (\A c \in Calls : held[call[c].slot][1].id # r.id)
                          => q = r

\* C30: with the operations run one at a time and every recommendCoffee call
\* given a freshly loaded record, in every state the recommendations counter of
\* each stored coffee is the number of "recommend_coffee" Event rows that refer
\* to its id.
C30_CounterMatchesEvents ==
    \A r \in db.coffees :
        r.recommendations = Cardinality(RecommendEventsOf(r.id, db))

\* a coffee recommended once by a call that committed, after a call for it
\* that was rolled back (the Event id 1 was used up by the rolled back insert)
C30_Witness ==
    /\ last.op = "recommend"
    /\ last.status = "ok"
    /\ \E c \in Calls : call[c].pc = "done" /\ call[c].committed
    /\ db.eventSeq = 3
    /\ \E r \in db.coffees :
          /\ r.recommendations = 1
          /\ RecommendEventsOf(r.id, db) = db.events
          /\ \E e \in db.events : e.id = 2
          /\ Cardinality(db.events) = 1

====
